---- MODULE Spec2Model ----
(***************************************************************************)
(* Model of gamma_eval_app.py: the Streamlit script that scores trajectory *)
(* logs and the function append_to_excel that records the session result   *)
(* in the Excel workbook RESULTS_FILE.                                     *)
(*                                                                         *)
(* Values of cells are tagged tuples: <<"s", chars>> for a string (chars a *)
(* tuple of one-character strings, so that slicing is SubSeq),             *)
(* <<"n", k>> for a number and <<"nan">> for pandas' NaN.  Numbers that    *)
(* are percentages are kept in hundredths of a percent.                    *)
(***************************************************************************)
EXTENDS Integers, Sequences, FiniteSets, TLC

VARIABLES
    store,          \* the workbook RESULTS_FILE on disk
    pc,             \* position of each session / caller
    sheet_name,     \* append_to_excel argument
    data_dict,      \* append_to_excel argument
    column_widths,  \* append_to_excel argument
    new_data_df,    \* append_to_excel local
    all_sheets,     \* append_to_excel local
    updated_df,     \* append_to_excel local
    msgs,           \* st.warning / st.success / st.error shown by the call
    readVer,        \* number of completed writes when the call read the store
    calls,          \* history: the successful writes, in order
    store0,         \* history: the workbook before the first call
    raised,         \* the exception the writer of the last call raised
    propagated,     \* the last call left append_to_excel by an exception
    active,         \* the sessions / callers that take steps
    widgets,        \* the widget values of each session (st.session_state)
    clicked,        \* st.button returned True in this run
    button_shown,   \* the submit button is on the page
    patient_id,     \* script global of the run
    all_gamma,      \* script global of the run
    gamma_calls,    \* the arguments of the calc_map / avg_gamma_pct calls of the run
    calls_in_run    \* history: calls of append_to_excel made by this run

storeVars == <<store, pc, sheet_name, data_dict, column_widths, new_data_df, all_sheets,
               updated_df, msgs, readVer, calls, store0, raised, propagated, active>>

appVars == <<widgets, clicked, button_shown, patient_id, all_gamma, gamma_calls,
            calls_in_run>>

vars == <<storeVars, appVars>>

\* ------------------------------------------------------------------ bounds
MaxSeqCalls == 3
MaxConcCalls == 2
MaxWrites == 1

Callers == {1, 2}

\* ------------------------------------------------------------------ values
NaN == <<"nan">>
Blank == <<"blank">>
Str(chars) == <<"s", chars>>
Num(k) == <<"n", k>>

Range(f) == {f[i] : i \in DOMAIN f}

None == <<"None">>

Max(S) == CHOOSE m \in S : \A n \in S : n <= m

EmptyDict == [k \in {} |-> NaN]

\* ------------------------------------------------------------------ configuration
standard_columns ==
    <<"Timestamp", "Patient ID", "Location", "Threshold (%)", "Gamma (%)",
      "Normalization", "Gamma Octavius 4D (%)">>

col_widths ==
    [c \in Range(standard_columns) |->
        CASE c = "Timestamp" -> 19
          [] c = "Patient ID" -> 15
          [] c = "Location" -> 25
          [] c = "Threshold (%)" -> 12
          [] c = "Gamma (%)" -> 10
          [] c = "Normalization" -> 12
          [] c = "Gamma Octavius 4D (%)" -> 22]

SheetNames == {"VMAT", "SBRT-SRS"}

\* ------------------------------------------------------------------ pandas
\* pd.DataFrame([data_dict]): the keys are the columns, the values the one row.
\* A dict is a sequence of <<key, value>> pairs (insertion order).
DataFrame(dict) ==
    [columns |-> [i \in 1..Len(dict) |-> dict[i][1]],
     rows |-> << [i \in 1..Len(dict) |-> dict[i][2]] >>]

ColumnIndex(columns, c) == CHOOSE k \in 1..Len(columns) : columns[k] = c

\* df.reindex(columns=cols): keep the listed columns in the listed order, drop
\* the others, fill a listed column the frame lacks with NaN.
reindex(df, cols) ==
    [columns |-> cols,
     rows |-> [i \in 1..Len(df.rows) |->
                 [j \in 1..Len(cols) |->
                    IF cols[j] \in Range(df.columns)
                    THEN df.rows[i][ColumnIndex(df.columns, cols[j])]
                    ELSE NaN]]]

\* Mutant of concat: the new rows are put first.
concat_prepend(a, b) == [columns |-> a.columns, rows |-> b.rows \o a.rows]

\* pd.concat([a, b], ignore_index=True) of two frames with the same columns.
concat(a, b) == [columns |-> a.columns, rows |-> a.rows \o b.rows]

\* len(str(v)) of a cell value, as series.astype(str).map(len) computes it: the
\* characters of a string, "nan" for NaN, and for a number (a float, kept in
\* hundredths) its digits, the point and one or two decimals.
RECURSIVE CharCount(_)
CharCount(chars) ==
    IF chars = <<>> THEN 0 ELSE Len(Head(chars)) + CharCount(Tail(chars))

Digits(k) == IF k < 10 THEN 1 ELSE IF k < 100 THEN 2 ELSE 3

StrLen(v) ==
    CASE v = NaN -> 3
      [] v[1] = "s" -> CharCount(v[2])
      [] v[1] = "n" -> Digits(v[2] \div 100) + (IF v[2] % 10 = 0 THEN 2 ELSE 3)

\* max((a, b)) of Python on numbers that may be NaN: the first item stays the
\* maximum unless the later one compares greater, and nothing compares
\* greater than NaN; NaN + 1 is NaN.
PyMax(a, b) == IF a = NaN THEN NaN ELSE IF b[2] > a[2] THEN b ELSE a

Plus1(a) == IF a = NaN THEN NaN ELSE Num(a[2] + 1)

\* Lines 124-132: series.astype(str).map(len).max() is NaN for a column without
\* values; the width is the maximum of it and the header length, plus one.
AutoWidth(df, j) ==
    LET lens == {StrLen(df.rows[i][j]) : i \in 1..Len(df.rows)}
        largest == IF lens = {} THEN NaN ELSE Num(Max(lens))
    IN Plus1(PyMax(largest, Num(Len(df.columns[j]))))

\* Lines 116-121: the width of each standard column the dict has a width for;
\* a column without one keeps the default width.
DefaultWidth == <<"default">>

DictWidth(df, widths, j) ==
    IF df.columns[j] \in DOMAIN widths THEN Num(widths[df.columns[j]]) ELSE DefaultWidth

\* df.to_excel(writer, sheet_name=sheet, index=False) followed by the width
\* adjustment of lines 112-133: a header row, one row of cells per frame row
\* (NaN is written as a blank cell), and the width set for each column.
to_excel(df, widths) ==
    [header |-> df.columns,
     cells |-> [i \in 1..Len(df.rows) |->
                  [j \in 1..Len(df.columns) |->
                     IF df.rows[i][j] = NaN THEN Blank ELSE df.rows[i][j]]],
     widths |-> [j \in 1..Len(df.columns) |->
                   IF widths # None THEN DictWidth(df, widths, j)
                   ELSE AutoWidth(df, j)]]

\* pd.read_excel(xls, sheet_name=sheet): the first row is the header, a blank
\* cell is NaN; widths are formatting and are not read.
read_excel(sheet) ==
    [columns |-> sheet.header,
     rows |-> [i \in 1..Len(sheet.cells) |->
                 [j \in 1..Len(sheet.header) |->
                    IF sheet.cells[i][j] = Blank THEN NaN ELSE sheet.cells[i][j]]]]

\* ------------------------------------------------------------------ inputs
\* datetime.now().strftime("%Y-%m-%d %H:%M:%S"), as a symbolic value.
Now == <<"YYYY-mm-dd HH:MM:SS">>
Earlier == <<"yyyy-mm-dd hh:mm:ss">>

Chars12A == <<"A","B","C","D","E","F","G","H","I","J","K","L">>
Chars12B == <<"M","N","O","P","Q","R","S","T","U","V","W","X">>

\* A record as the script builds it (all seven keys).
FullRecord ==
    << <<"Timestamp", Str(Now)>>, <<"Patient ID", Str(Chars12A)>>,
       <<"Location", Str(<<"Cerebral">>)>>, <<"Threshold (%)", Num(1000)>>,
       <<"Gamma (%)", Num(9800)>>, <<"Normalization", Str(<<"Local">>)>>,
       <<"Gamma Octavius 4D (%)", Num(0)>> >>

\* A dict of another caller: keys in another order, one key that is not a
\* standard column, two standard columns missing.
PartialRecord ==
    << <<"Patient ID", Str(Chars12B)>>, <<"Timestamp", Str(Earlier)>>,
       <<"Comment", Str(<<"x">>)>>, <<"Gamma (%)", Num(9950)>>,
       <<"Normalization", Str(<<"Global">>)>>,
       <<"Threshold (%)", Num(1000)>> >>

ArgRecords == {FullRecord, PartialRecord}

\* A workbook written by an earlier version of the program: the VMAT sheet has
\* a column the current schema does not know and lacks four it does; the
\* SBRT-SRS sheet has the current schema.
LegacySheets ==
    [n \in SheetNames |->
        IF n = "VMAT"
        THEN [header |-> <<"Patient ID", "Operator", "Gamma (%)", "Timestamp">>,
              cells |-> << <<Str(Chars12B), Str(<<"op">>), Num(9700), Str(Earlier)>> >>,
              widths |-> <<DefaultWidth, DefaultWidth, DefaultWidth, DefaultWidth>>]
        ELSE to_excel(reindex(DataFrame(FullRecord), standard_columns), col_widths)]

NoSheets == [n \in {} |-> NaN]

InitialStores ==
    { [state |-> "absent", sheets |-> NoSheets],
      [state |-> "ok", sheets |-> LegacySheets],
      [state |-> "unreadable", sheets |-> LegacySheets] }

\* A workbook prepared by hand: a VMAT sheet with the header row and no
\* record yet, no SBRT-SRS sheet.
PreparedSheets ==
    [n \in {"VMAT"} |->
        [header |-> standard_columns, cells |-> <<>>,
         widths |-> [j \in 1..Len(standard_columns) |-> DefaultWidth]]]

PreparedStore == [state |-> "ok", sheets |-> PreparedSheets]

\* The column_widths arguments: the dict of the script or the default None.
ArgWidths == {col_widths, None}

\* ------------------------------------------------------------------ the page
\* An uploaded file: its name, whether pylinac can decode it as a trajectory
\* log, and the gamma pass percentage of its fluence (hundredths of a percent).
File(name, log, pass_prcnt) == [name |-> name, log |-> log, pass_prcnt |-> pass_prcnt]

NameA1 == Chars12A \o <<"_", "1", ".", "b", "i", "n">>
NameA2 == Chars12A \o <<"_", "2", ".", "b", "i", "n">>
NameAX == Chars12A \o <<"_", "x", ".", "b", "i", "n">>
NameShort == <<"s", "h", "o", "r", "t", ".", "b", "i", "n">>

TwoBeams == <<File(NameA1, "ok", 9800), File(NameA2, "ok", 9900)>>

Uploads ==
    { <<>>,
      TwoBeams,
      <<File(NameShort, "ok", 9700)>>,
      <<File(NameA1, "ok", 9800), File(NameAX, "bad", 0)>>,
      <<File(NameA1, "ok", 9800), File(NameA1, "ok", 9900)>> }

Options == {"VMAT", "SBRT", "SRS"}
NormOptions == {"Local", "Global"}
Thresholds == {1000, 2000}
BODY_LOCATIONS == {<<"Cerebral">>}
OctaviusValues == {0}

\* The options of the file selectbox (line 247): the names of the uploaded
\* files, each once.
Names(files) == {files[i].name : i \in 1..Len(files)}

\* The widget values: the radio buttons, the threshold, the uploader, the
\* file selectbox (an index into its options, 1 by default), the location
\* selectbox and the Octavius input.  The criteria are varied on the session
\* with two decodable files; the other uploads are analysed with the criteria
\* the page starts with.
WidgetStates ==
    { w \in [option : Options, norm_option : NormOptions, thd_percent : Thresholds,
             uploaded_files : Uploads, file_name : 1..2,
             selected_location : BODY_LOCATIONS, octavius_gamma : OctaviusValues] :
        /\ w.file_name <= IF w.uploaded_files = <<>> THEN 1
                          ELSE Cardinality(Names(w.uploaded_files))
        /\ \/ w.uploaded_files \in {<<>>, TwoBeams}
           \/ /\ w.option = "VMAT"
              /\ w.norm_option = "Local"
              /\ w.thd_percent = 1000 }

DefaultWidgets ==
    [option |-> "VMAT", norm_option |-> "Local", thd_percent |-> 1000,
     uploaded_files |-> <<>>, file_name |-> 1,
     selected_location |-> <<"Cerebral">>, octavius_gamma |-> 0]

\* Lines 169-178: the sheet the technique writes to.
SheetOf(option) == IF option = "VMAT" THEN "VMAT" ELSE "SBRT-SRS"

\* Lines 169-178: the criteria of the technique: dta in mm, dd in hundredths
\* of a percent, res in tenths of a mm.
Preset(option) ==
    IF option = "VMAT" THEN [dta |-> 0, dd |-> 44, res |-> 1]
    ELSE [dta |-> 0, dd |-> 69, res |-> 1]

\* Mutant of normalize: the two labels are swapped.
normalize_swapped(norm_option) == norm_option = "Local"

\* Lines 182-185.
normalize(norm_option) == norm_option # "Local"

\* Line 188: thd = thd_percent / 100.0, from hundredths of a percent to
\* millionths; line 283: thd * 100, from millionths back to hundredths of a
\* percent.
thd(thd_percent) == thd_percent * 100

Times100(fraction) == fraction \div 100

\* Lines 253 and 261: the keyword arguments of calc_map and avg_gamma_pct.
GammaArgs(w) ==
    [distTA |-> Preset(w.option).dta, doseTA |-> Preset(w.option).dd,
     threshold |-> thd(w.thd_percent), resolution |-> Preset(w.option).res,
     normalize |-> normalize(w.norm_option)]

\* ------------------------------------------------------------------ append_to_excel
\* Lines 52-73, entry of append_to_excel: new_data_df is built and reindexed
\* before anything is read.
Enter(s, sheet, dict, widths) ==
    /\ sheet_name' = [sheet_name EXCEPT ![s] = sheet]
    /\ data_dict' = [data_dict EXCEPT ![s] = dict]
    /\ column_widths' = [column_widths EXCEPT ![s] = widths]
    /\ new_data_df' = [new_data_df EXCEPT ![s] = reindex(DataFrame(dict), standard_columns)]
    /\ all_sheets' = [all_sheets EXCEPT ![s] = EmptyDict]
    /\ updated_df' = [updated_df EXCEPT ![s] = NaN]
    /\ raised' = [raised EXCEPT ![s] = "none"]
    /\ propagated' = [propagated EXCEPT ![s] = FALSE]
    /\ pc' = [pc EXCEPT ![s] = "read"]
    /\ UNCHANGED <<store, readVer, calls, store0, active>>

\* A caller calls append_to_excel on a fresh page; concurrent callers are
\* sessions of the script, which pass col_widths (line 290).
CallAppend(s, sheet, dict, widths) ==
    /\ pc[s] = "idle"
    /\ s \in active
    /\ Len(calls) < (IF Cardinality(active) = 1 THEN MaxSeqCalls ELSE MaxConcCalls)
    /\ Cardinality(active) > 1 => widths = col_widths
    /\ Enter(s, sheet, dict, widths)
    /\ msgs' = [msgs EXCEPT ![s] = {}]
    /\ UNCHANGED appVars

\* A message is <<level, text, detail>>: the st.* call, which text it shows and
\* the exception the text quotes ("none" when it quotes none).
ReadWarning == <<"warning", "could not read", "read_error">>
Success == <<"success", "saved", "none">>

\* Lines 76-100: the existence test, the read of every sheet and the frame the
\* target sheet will hold.  all_sheets is assigned only when every sheet was
\* read; when the read raises it is still the empty dict of line 76.
ReadSheets(st) == [n \in DOMAIN st.sheets |-> read_excel(st.sheets[n])]

\* Mutant of LoadedSheets: the sheets that were read are not kept.
LoadedSheets_none(st) == EmptyDict

LoadedSheets(st) == IF st.state = "ok" THEN ReadSheets(st) ELSE EmptyDict

\* Mutant of UpdatedDf: the existing rows of the target sheet are not kept.
UpdatedDf_fresh(st, sheet, new_df) == new_df

UpdatedDf(st, sheet, new_df) ==
    IF st.state = "ok" /\ sheet \in DOMAIN st.sheets
    THEN concat(reindex(ReadSheets(st)[sheet], standard_columns), new_df)
    ELSE new_df

\* Mutant of ReadMessages: a failed read is not reported.
ReadMessages_silent(st) == {}

ReadMessages(st) == IF st.state = "unreadable" THEN {ReadWarning} ELSE {}

AppendRead(s) ==
    /\ pc[s] = "read"
    /\ all_sheets' = [all_sheets EXCEPT ![s] = LoadedSheets(store)]
    /\ updated_df' = [updated_df EXCEPT ![s] =
                         UpdatedDf(store, sheet_name[s], new_data_df[s])]
    /\ msgs' = [msgs EXCEPT ![s] = @ \cup ReadMessages(store)]
    /\ readVer' = [readVer EXCEPT ![s] = Len(calls)]
    /\ pc' = [pc EXCEPT ![s] = "write"]
    /\ UNCHANGED <<store, sheet_name, data_dict, column_widths, new_data_df, calls,
                   store0, raised, propagated, active, appVars>>

\* Lines 103-143: the whole workbook is rewritten from all_sheets, or the
\* writer raises and one of the three handlers reports it; then the call
\* returns and its locals are gone.
WriteOutcomes == {"ok", "ImportError", "PermissionError", "Exception"}

\* Mutant of Handler: a PermissionError falls to the last handler.
Handler_generic(outcome) ==
    CASE outcome = "ok" -> Success
      [] outcome = "ImportError" -> <<"error", "library not found", "ImportError">>
      [] outcome = "PermissionError" -> <<"error", "error saving", "PermissionError">>
      [] outcome = "Exception" -> <<"error", "error saving", "Exception">>

Handler(outcome) ==
    CASE outcome = "ok" -> Success
      [] outcome = "ImportError" -> <<"error", "library not found", "ImportError">>
      [] outcome = "PermissionError" -> <<"error", "permission denied", "none">>
      [] outcome = "Exception" -> <<"error", "error saving", "Exception">>

\* Mutant of Caught: there is no handler for the other exceptions.
Caught_specific == {"ImportError", "PermissionError"}

\* Lines 137-143: the exceptions the except clauses of the outer try match;
\* "Exception" stands for every exception that is neither an ImportError nor
\* a PermissionError.
Caught == {"ImportError", "PermissionError", "Exception"}

\* What the end of the call shows: st.success after the writer closed, the
\* message of the matching handler, or nothing when no handler matches.
Reported(outcome) ==
    IF outcome = "ok" THEN {Success}
    ELSE IF outcome \in Caught THEN {Handler(outcome)} ELSE {}

\* Mutant of SetItem: the other keys of the dict are lost.
SetItem_only(dict, key, value) == [k \in {key} |-> value]

SetItem(dict, key, value) ==
    [k \in DOMAIN dict \cup {key} |-> IF k = key THEN value ELSE dict[k]]

\* Mutant of Workbook: the frames are written without the reindex of line 109.
Workbook_asis(sheets, widths) ==
    [state |-> "ok",
     sheets |-> [n \in DOMAIN sheets |-> to_excel(sheets[n], widths)]]

Workbook(sheets, widths) ==
    [state |-> "ok",
     sheets |-> [n \in DOMAIN sheets |->
                   to_excel(reindex(sheets[n], standard_columns), widths)]]

AppendWrite(s) ==
    /\ pc[s] = "write"
    /\ \E outcome \in WriteOutcomes :
         LET sheets == SetItem(all_sheets[s], sheet_name[s], updated_df[s])
         IN /\ store' = IF outcome = "ok" THEN Workbook(sheets, column_widths[s]) ELSE store
            /\ calls' = IF outcome = "ok"
                        THEN Append(calls, [caller |-> s,
                                            sheet |-> sheet_name[s],
                                            dict |-> data_dict[s],
                                            widths |-> column_widths[s],
                                            warned |-> ReadWarning \in msgs[s],
                                            readVer |-> readVer[s]])
                        ELSE calls
            /\ raised' = [raised EXCEPT ![s] = IF outcome = "ok" THEN "none" ELSE outcome]
            /\ propagated' = [propagated EXCEPT ![s] = outcome \notin Caught \cup {"ok"}]
            /\ msgs' = [msgs EXCEPT ![s] = @ \cup Reported(outcome)]
    /\ new_data_df' = [new_data_df EXCEPT ![s] = NaN]
    /\ all_sheets' = [all_sheets EXCEPT ![s] = EmptyDict]
    /\ updated_df' = [updated_df EXCEPT ![s] = NaN]
    /\ readVer' = [readVer EXCEPT ![s] = 0]
    /\ pc' = [pc EXCEPT ![s] = "idle"]
    /\ UNCHANGED <<sheet_name, data_dict, column_widths, store0, active, appVars>>

\* ------------------------------------------------------------------ the script
\* Lines 209-234: the uploaded files are saved in the temporary directory, the
\* path of each under its name (a later file of the same name replaces an
\* earlier one); the name of the first one is kept for the identifier.
file_paths(files) ==
    [n \in {files[i].name : i \in 1..Len(files)} |->
        files[CHOOSE i \in 1..Len(files) :
                 /\ files[i].name = n
                 /\ \A j \in 1..Len(files) : files[j].name = n => j <= i]]

file_name_for_id(files) == files[1].name

\* Lines 227-229 and 293-294: a save that raises stops the run; without files
\* the script asks for them.
UploadMessages(files, saved) ==
    IF files = <<>> THEN {<<"info", "upload files to begin", "none">>}
    ELSE IF ~saved THEN {<<"error", "error saving uploaded file", "Exception">>}
    ELSE {}

\* Lines 239-244: the patient identifier.
Unknown == <<"U", "n", "k", "n", "o", "w", "n">>

\* Mutant of PatientId: a short name is used as it is.
PatientId_truncate(name) ==
    IF Len(name) >= 12 THEN SubSeq(name, 1, 12) ELSE name

PatientId(name) ==
    IF name # None /\ Len(name) >= 12 THEN SubSeq(name, 1, 12) ELSE Unknown

PatientMessages(name) ==
    IF name # None /\ Len(name) >= 12 THEN {}
    ELSE {<<"warning", "could not extract patient id", "none">>}

\* Lines 247-266: TrajectoryLog raises on the selected file if it is not a
\* trajectory log; load_log and avg_gamma_pct go through every file of the
\* temporary directory and return the mean of the pass percentages, kept
\* exact as <<"mean", sum, count>>.  Any exception leaves all_gamma None.
RECURSIVE SumPass(_)
SumPass(logs) ==
    IF logs = {} THEN 0
    ELSE LET f == CHOOSE f \in logs : TRUE
         IN f.pass_prcnt + SumPass(logs \ {f})

\* Mutant of AllGamma: the files that cannot be decoded are left out.
AllGamma_partial(paths, selected) ==
    LET logs == {f \in Range(paths) : f.log = "ok"}
    IN IF paths[selected].log = "ok"
       THEN <<"mean", SumPass(logs), Cardinality(logs)>>
       ELSE None

AllGamma(paths, selected) ==
    LET logs == Range(paths)
    IN IF paths[selected].log = "ok" /\ \A f \in logs : f.log = "ok"
       THEN <<"mean", SumPass(logs), Cardinality(logs)>>
       ELSE None

\* The gamma computations a run starts: calc_map on the selected log when
\* TrajectoryLog decoded it (lines 251-253), then avg_gamma_pct on the logs of
\* the directory when load_log decoded them all (lines 260-261).
GammaCalls(w, paths, selected) ==
    IF paths[selected].log # "ok" THEN <<>>
    ELSE <<[fn |-> "calc_map", args |-> GammaArgs(w)]>>
         \o (IF \A f \in Range(paths) : f.log = "ok"
             THEN <<[fn |-> "avg_gamma_pct", args |-> GammaArgs(w)]>>
             ELSE <<>>)

AnalysisMessages(gamma) ==
    IF gamma = None THEN {<<"error", "error during log analysis", "Exception">>} ELSE {}

\* round(all_gamma, 2): the nearest hundredth, a tie to the even one.
Round2(gamma) ==
    LET q == gamma[2] \div gamma[3]
        r == gamma[2] % gamma[3]
    IN IF 2 * r < gamma[3] THEN q
       ELSE IF 2 * r > gamma[3] THEN q + 1
       ELSE IF q % 2 = 0 THEN q ELSE q + 1

\* Lines 279-287.
DataToSave(w, pid, gamma) ==
    << <<"Timestamp", Str(Now)>>,
       <<"Patient ID", Str(pid)>>,
       <<"Location", Str(w.selected_location)>>,
       <<"Threshold (%)", Num(Times100(thd(w.thd_percent)))>>,
       <<"Gamma (%)", Num(Round2(gamma))>>,
       <<"Normalization", Str(<<w.norm_option>>)>>,
       <<"Gamma Octavius 4D (%)", Num(w.octavius_gamma)>> >>

\* Mutant of SaveOffered: the save section is shown without a result.
SaveOffered_always(gamma) == TRUE

\* Line 269: the save section is shown only if the analysis gave a result.
SaveOffered(gamma) == gamma # None

\* Mutant of Submitted: the record is sent whenever the save section is shown.
Submitted_always(click) == TRUE

\* Line 276: st.button returned True.
Submitted(click) == click

\* Line 277.
CanSubmit(pid, w) == pid \notin {None, <<>>} /\ w.selected_location # <<>>

\* Mutant of Analysed: the run goes on after a save that raised.
Analysed_any(files, saved) == files # <<>>

\* Lines 209-234: the analysis is reached when files were uploaded and every
\* one was saved; st.stop() ends the run at the first save that raises.
Analysed(files, saved) == files # <<>> /\ saved

\* One run of the script, lines 160-294, with the widget values w: Streamlit
\* runs the whole script again on every interaction.  saved: no save of an
\* uploaded file raised.  The run ends with the page rendered, or inside
\* append_to_excel (line 290, the last statement), which the run enters with
\* the record of this run.
Run(s, w, click) ==
    \E saved \in BOOLEAN :
        LET files == w.uploaded_files
            analysed == Analysed(files, saved)
            pid == IF analysed THEN PatientId(file_name_for_id(files)) ELSE None
            gamma == IF analysed
                     THEN AllGamma(file_paths(files), files[w.file_name].name)
                     ELSE None
            gcalls == IF analysed
                      THEN GammaCalls(w, file_paths(files), files[w.file_name].name)
                      ELSE <<>>
            offered == analysed /\ SaveOffered(gamma)
            submit == offered /\ Submitted(click)
            shown == UploadMessages(files, saved)
                     \cup (IF analysed
                           THEN PatientMessages(file_name_for_id(files))
                                \cup AnalysisMessages(gamma)
                           ELSE {})
        IN /\ (files = <<>> => saved)
           /\ widgets' = [widgets EXCEPT ![s] = w]
           /\ clicked' = [clicked EXCEPT ![s] = click]
           /\ patient_id' = [patient_id EXCEPT ![s] = pid]
           /\ all_gamma' = [all_gamma EXCEPT ![s] = gamma]
           /\ gamma_calls' = [gamma_calls EXCEPT ![s] = gcalls]
           /\ button_shown' = [button_shown EXCEPT ![s] = offered]
           /\ IF submit /\ CanSubmit(pid, w)
              THEN /\ Enter(s, SheetOf(w.option), DataToSave(w, pid, gamma), col_widths)
                   /\ calls_in_run' = [calls_in_run EXCEPT ![s] = 1]
                   /\ msgs' = [msgs EXCEPT ![s] = shown]
              ELSE /\ sheet_name' = [sheet_name EXCEPT ![s] = SheetOf(w.option)]
                   /\ data_dict' = [data_dict EXCEPT ![s] = <<>>]
                   /\ raised' = [raised EXCEPT ![s] = "none"]
                   /\ propagated' = [propagated EXCEPT ![s] = FALSE]
                   /\ calls_in_run' = [calls_in_run EXCEPT ![s] = 0]
                   /\ msgs' = [msgs EXCEPT ![s] =
                         shown \cup (IF submit
                                     THEN {<<"warning", "cannot submit", "none">>}
                                     ELSE {})]
                   /\ pc' = [pc EXCEPT ![s] = "idle"]
                   /\ UNCHANGED <<store, column_widths, new_data_df, all_sheets,
                                  updated_df, readVer, calls, store0, active>>

\* The operator changes one widget (technique, normalization, threshold,
\* files, selected file, location or Octavius value), which starts a run; new
\* files put the file selectbox back on its first option.
WidgetNames == {"option", "norm_option", "thd_percent", "uploaded_files", "file_name",
                "selected_location", "octavius_gamma"}

OneChange(old, new) ==
    \E k \in WidgetNames :
        /\ new[k] # old[k]
        /\ \A j \in WidgetNames \ {k} :
              \/ new[j] = old[j]
              \/ k = "uploaded_files" /\ j = "file_name" /\ new[j] = 1

Interact(s, w) ==
    /\ pc[s] = "idle"
    /\ s \in active
    /\ OneChange(widgets[s], w)
    /\ Run(s, w, FALSE)

\* The operator presses "Submit Results to Excel File", which is on the page
\* only when the previous run showed it (line 276); the run that follows has
\* the same widget values.
ClickSubmit(s) ==
    /\ pc[s] = "idle"
    /\ s \in active
    /\ button_shown[s]
    /\ Len(calls) < MaxWrites
    /\ Run(s, widgets[s], TRUE)

\* ------------------------------------------------------------------ specifications
InitLocals ==
    /\ pc = [s \in Callers |-> "idle"]
    /\ sheet_name = [s \in Callers |-> "VMAT"]
    /\ data_dict = [s \in Callers |-> <<>>]
    /\ column_widths = [s \in Callers |-> None]
    /\ new_data_df = [s \in Callers |-> NaN]
    /\ all_sheets = [s \in Callers |-> EmptyDict]
    /\ updated_df = [s \in Callers |-> NaN]
    /\ msgs = [s \in Callers |-> {}]
    /\ readVer = [s \in Callers |-> 0]
    /\ raised = [s \in Callers |-> "none"]
    /\ propagated = [s \in Callers |-> FALSE]
    /\ calls = <<>>
    /\ widgets = [s \in Callers |-> DefaultWidgets]
    /\ clicked = [s \in Callers |-> FALSE]
    /\ button_shown = [s \in Callers |-> FALSE]
    /\ patient_id = [s \in Callers |-> None]
    /\ all_gamma = [s \in Callers |-> None]
    /\ gamma_calls = [s \in Callers |-> <<>>]
    /\ calls_in_run = [s \in Callers |-> 0]

InitStore ==
    /\ store \in InitialStores \cup {PreparedStore}
    /\ store0 = store
    /\ active = {1}
    /\ InitLocals

InitConc ==
    /\ store \in {st \in InitialStores : st.state # "unreadable"}
    /\ store0 = store
    /\ active = Callers
    /\ InitLocals

Init ==
    /\ store \in {st \in InitialStores : st.state # "unreadable"}
    /\ store0 = store
    /\ active = {1}
    /\ InitLocals

NextStore ==
    \/ \E s \in Callers, sheet \in SheetNames, dict \in ArgRecords, widths \in ArgWidths :
          CallAppend(s, sheet, dict, widths)
    \/ \E s \in Callers : AppendRead(s)
    \/ \E s \in Callers : AppendWrite(s)

Next ==
    \/ \E s \in Callers, w \in WidgetStates : Interact(s, w)
    \/ \E s \in Callers : ClickSubmit(s)
    \/ \E s \in Callers : AppendRead(s)
    \/ \E s \in Callers : AppendWrite(s)

\* One operator session runs the script against the workbook.
Spec == Init /\ [][Next]_vars

\* One caller at a time calls append_to_excel.
SpecStore == InitStore /\ [][NextStore]_vars

\* Two sessions of the server call append_to_excel on the same workbook.
SpecConc == InitConc /\ [][NextStore]_vars

\* ------------------------------------------------------------------ records of a workbook
\* The value a persisted row holds in a column (NaN when the sheet has no such
\* column or the cell is blank), and the row as a record of the seven fields.
Field(sheet, i, col) ==
    IF \E k \in 1..Len(sheet.header) : sheet.header[k] = col /\ sheet.cells[i][k] # Blank
    THEN sheet.cells[i][CHOOSE k \in 1..Len(sheet.header) : sheet.header[k] = col]
    ELSE NaN

Record(sheet, i) == [j \in 1..Len(standard_columns) |-> Field(sheet, i, standard_columns[j])]

Records(sheet) == [i \in 1..Len(sheet.cells) |-> Record(sheet, i)]

\* The record a dict stands for: the value of each standard key, NaN if absent.
DictGet(dict, key) ==
    IF \E k \in 1..Len(dict) : dict[k][1] = key
    THEN dict[CHOOSE k \in 1..Len(dict) : dict[k][1] = key][2]
    ELSE NaN

RecordOf(dict) == [j \in 1..Len(standard_columns) |-> DictGet(dict, standard_columns[j])]

IsPrefix(a, b) == Len(a) <= Len(b) /\ SubSeq(b, 1, Len(a)) = a

RowCount(st, c) == IF c \in DOMAIN st.sheets THEN Len(st.sheets[c].cells) ELSE 0

TotalRows(st) == RowCount(st, "VMAT") + RowCount(st, "SBRT-SRS")

\* The records a category held before the first call, and the records the
\* successful calls submitted to it, in the order of their success.
StartRecords(c) ==
    IF store0.state = "ok" /\ c \in DOMAIN store0.sheets
    THEN Records(store0.sheets[c]) ELSE <<>>

CallsTo(c) == SelectSeq(calls, LAMBDA e : e.sheet = c)

AppendedRecords(c) == [i \in 1..Len(CallsTo(c)) |-> RecordOf(CallsTo(c)[i].dict)]

\* ------------------------------------------------------------------ C1
\* C1: on a store that is absent or readable, after n successful appends by
\* one caller each category that was appended to holds the records it held
\* before followed by exactly the n submitted records, in submission order,
\* duplicates included (from an absent store: exactly the submitted records).
C1_AppendsInOrder ==
    store0.state # "unreadable" =>
        \A c \in SheetNames :
            Len(CallsTo(c)) > 0 =>
                /\ store.state = "ok"
                /\ c \in DOMAIN store.sheets
                /\ Records(store.sheets[c]) = StartRecords(c) \o AppendedRecords(c)

\* The same record was appended twice to one category of a store that did not
\* exist, and the category holds two rows.
C1_Witness ==
    /\ store0.state = "absent"
    /\ Len(calls) = 2
    /\ calls[1].sheet = calls[2].sheet
    /\ calls[1].dict = calls[2].dict
    /\ RowCount(store, calls[1].sheet) = 2

\* ------------------------------------------------------------------ C2
PrefixStep ==
    \A c \in DOMAIN store.sheets :
        /\ c \in DOMAIN store'.sheets
        /\ IsPrefix(Records(store.sheets[c]), Records(store'.sheets[c]))

WriterWarned == \E s \in Callers : pc[s] = "write" /\ ReadWarning \in msgs[s]

C3_OtherCategoriesKept ==
    [][ \A s \in Callers :
          (pc[s] = "write" /\ ReadWarning \in msgs[s] /\ Success \in msgs'[s]) =>
              /\ Records(store'.sheets[sheet_name[s]]) = <<RecordOf(data_dict[s])>>
              /\ \A c \in DOMAIN store.sheets \ {sheet_name[s]} :
                    /\ c \in DOMAIN store'.sheets
                    /\ Records(store'.sheets[c]) = Records(store.sheets[c])
      ]_vars

\* ------------------------------------------------------------------ C4
IsError(m) == m[1] = "error"

\* C4: the read of a call shows the warning exactly when the file exists and
\* cannot be read (not when it is absent or was read); a call that warned has
\* reported no error when it reaches the write, and when its write goes
\* through it reports success and the target category holds exactly the new
\* record.
C4_UnreadableStore ==
    [][ \A s \in Callers :
          /\ (pc[s] = "read" /\ pc'[s] = "write") =>
                /\ (ReadWarning \in msgs'[s]) <=> (store.state = "unreadable")
                /\ \A m \in msgs'[s] : ~IsError(m)
          /\ (pc[s] = "write" /\ ReadWarning \in msgs[s] /\ store' # store) =>
                /\ pc'[s] = "idle"
                /\ Success \in msgs'[s]
                /\ ReadWarning \in msgs'[s]
                /\ \A m \in msgs'[s] : ~IsError(m)
                /\ Records(store'.sheets[sheet_name[s]]) = <<RecordOf(data_dict[s])>>
      ]_vars

\* A call on an unreadable file has returned with the warning and success.
C4_Witness ==
    /\ store0.state = "unreadable"
    /\ Len(calls) = 1
    /\ \E s \in Callers :
          /\ pc[s] = "idle"
          /\ ReadWarning \in msgs[s]
          /\ Success \in msgs[s]
          /\ Records(store.sheets[sheet_name[s]]) = <<RecordOf(data_dict[s])>>

\* ------------------------------------------------------------------ C5
\* Every successful call read the store after the write before it.
Serialized == \A i \in 1..Len(calls) : calls[i].readVer = i - 1

\* C5: with two callers and a store that is absent or readable, when the
\* read-modify-write cycles are serialized every category holds all the
\* records submitted to it; when the second of two successful calls read the
\* store before the first wrote, the store holds one record more than at the
\* start, the second call's, and the first call's record is lost.
C5_LostUpdate ==
    store0.state # "unreadable" =>
        /\ Serialized =>
              \A c \in SheetNames :
                  Len(CallsTo(c)) > 0 =>
                      /\ c \in DOMAIN store.sheets
                      /\ Records(store.sheets[c]) = StartRecords(c) \o AppendedRecords(c)
        /\ (Len(calls) = 2 /\ calls[2].readVer = 0) =>
              /\ calls[1].caller # calls[2].caller
              /\ TotalRows(store) = TotalRows(store0) + 1
              /\ Records(store.sheets[calls[2].sheet]) =
                    StartRecords(calls[2].sheet) \o <<RecordOf(calls[2].dict)>>

\* Both calls have reported success and the store holds only one of the two
\* records.
C5_Witness ==
    /\ store0.state = "ok"
    /\ Len(calls) = 2
    /\ calls[2].readVer = 0
    /\ \A s \in Callers : pc[s] = "idle" /\ Success \in msgs[s]
    /\ TotalRows(store) = TotalRows(store0) + 1

\* ------------------------------------------------------------------ C9
Cell(v) == IF v = NaN THEN Blank ELSE v

\* C9: after a successful append every sheet of the workbook has the seven
\* standard columns as its header, in order, and seven cells in every row;
\* the row of the new record holds the value of each standard key of the
\* dict (blank for a key the dict lacks, nothing for a key that is not
\* standard), and a row that was in a readable workbook before holds under
\* each standard column the value it had under that column (blank if it had
\* no such column).
C9_Schema ==
    Len(calls) > 0 =>
        /\ \A n \in DOMAIN store.sheets :
              /\ store.sheets[n].header = standard_columns
              /\ \A i \in 1..Len(store.sheets[n].cells) :
                    Len(store.sheets[n].cells[i]) = Len(standard_columns)
        /\ LET last == calls[Len(calls)]
               sh == store.sheets[last.sheet]
           IN sh.cells[Len(sh.cells)] =
                 [j \in 1..Len(standard_columns) |->
                     Cell(DictGet(last.dict, standard_columns[j]))]
        /\ store0.state = "ok" =>
              \A n \in DOMAIN store0.sheets :
                  /\ n \in DOMAIN store.sheets
                  /\ \A i \in 1..Len(store0.sheets[n].cells) :
                        store.sheets[n].cells[i] =
                            [j \in 1..Len(standard_columns) |->
                                Cell(Field(store0.sheets[n], i, standard_columns[j]))]

\* A dict with a missing and an unknown key was appended to one category of a
\* workbook whose other category had a legacy header.
C9_Witness ==
    /\ store0.state = "ok"
    /\ Len(calls) = 1
    /\ calls[1].sheet = "SBRT-SRS"
    /\ calls[1].dict = PartialRecord
    /\ store.sheets["VMAT"].header # store0.sheets["VMAT"].header

\* ------------------------------------------------------------------ C6
BeamFailed(w) == \E i \in 1..Len(w.uploaded_files) : w.uploaded_files[i].log # "ok"

AnalysisError == <<"error", "error during log analysis", "Exception">>

\* C6: a run in which a beam cannot be scored (the selected one or any one of
\* the aggregation) has no session percentage, does not show the save
\* section and does not call append_to_excel; a session percentage exists
\* only when it is the mean over every submitted beam, and the save section
\* and an append call exist only with a session percentage.
C6_FailFast ==
    \A s \in Callers :
        LET w == widgets[s]
        IN /\ BeamFailed(w) =>
                /\ all_gamma[s] = None
                /\ ~button_shown[s]
                /\ pc[s] = "idle"
                /\ calls_in_run[s] = 0
           /\ all_gamma[s] # None =>
                /\ w.uploaded_files # <<>>
                /\ ~BeamFailed(w)
                /\ all_gamma[s][3] = Len(w.uploaded_files)
           /\ button_shown[s] => all_gamma[s] # None
           /\ pc[s] \in {"read", "write"} => all_gamma[s] # None

\* A run whose selected file was scored and whose other file was not ended
\* with the analysis error and without result.
C6_Witness ==
    \E s \in Callers :
        /\ BeamFailed(widgets[s])
        /\ widgets[s].uploaded_files[widgets[s].file_name].log = "ok"
        /\ AnalysisError \in msgs[s]
        /\ all_gamma[s] = None
        /\ ~button_shown[s]

\* ------------------------------------------------------------------ C7
\* C7: append_to_excel is entered only in a run started by the submit button
\* and after that run computed the session percentage; a run enters it at
\* most once, exactly once when the button was pressed and the percentage
\* computed, with one record for one category; the workbook changes only in
\* the write of such a call, by one row, and never in a session that did not
\* confirm.
C7_OnConfirmation ==
    [][ /\ \A s \in Callers :
              /\ (pc[s] # "read" /\ pc'[s] = "read") =>
                    /\ clicked'[s]
                    /\ all_gamma'[s] # None
                    /\ Len(new_data_df'[s].rows) = 1
                    /\ sheet_name'[s] \in SheetNames
              /\ calls_in_run'[s] <= 1
              /\ (calls_in_run'[s] = 1) <=> (clicked'[s] /\ all_gamma'[s] # None)
              /\ ~clicked'[s] => pc'[s] = "idle"
        /\ store' # store =>
              \E s \in Callers :
                  /\ pc[s] = "write"
                  /\ clicked[s]
                  /\ all_gamma[s] # None
                  /\ calls_in_run[s] = 1
                  /\ Len(calls') = Len(calls) + 1
                  /\ TotalRows(store') = TotalRows(store) + 1
                  /\ RowCount(store', sheet_name[s]) = RowCount(store, sheet_name[s]) + 1
      ]_vars

\* The operator confirmed, the call wrote the record and reported success.
C7_Witness ==
    \E s \in Callers :
        /\ pc[s] = "idle"
        /\ clicked[s]
        /\ calls_in_run[s] = 1
        /\ Success \in msgs[s]
        /\ Len(calls) = 1
        /\ TotalRows(store) = TotalRows(store0) + 1

\* ------------------------------------------------------------------ C8
ShortName(w) == w.uploaded_files # <<>> /\ Len(w.uploaded_files[1].name) < 12

PatientWarning == <<"warning", "could not extract patient id", "none">>

\* C8 as stated: a run whose first file has a name shorter than 12
\* characters produces no patient identifier and no result, and cannot
\* append.
C8_Original ==
    \A s \in Callers :
        ShortName(widgets[s]) =>
            /\ patient_id[s] = None
            /\ ~button_shown[s]
            /\ pc[s] = "idle"

\* C8, amended: the identifier of a run is the first 12 characters of the
\* name of the first submitted file; when that name is shorter than 12
\* characters the run is not rejected: it shows a warning, uses "Unknown" as
\* the identifier, goes on with the analysis, offers the save section when
\* every beam was scored, and the record it appends has Patient ID "Unknown".
C8_PatientId ==
    \A s \in Callers :
        LET w == widgets[s]
        IN /\ patient_id[s] # None =>
                /\ w.uploaded_files # <<>>
                /\ ~ShortName(w) =>
                      /\ patient_id[s] = SubSeq(w.uploaded_files[1].name, 1, 12)
                      /\ PatientWarning \notin msgs[s]
                /\ ShortName(w) =>
                      /\ patient_id[s] = Unknown
                      /\ PatientWarning \in msgs[s]
                      /\ ~BeamFailed(w) => button_shown[s] /\ all_gamma[s] # None
           /\ pc[s] \in {"read", "write"} =>
                DictGet(data_dict[s], "Patient ID") = Str(patient_id[s])

\* The record of a run whose first file had a short name is in the workbook
\* with the identifier "Unknown".
C8_Witness ==
    /\ Len(calls) = 1
    /\ DictGet(calls[1].dict, "Patient ID") = Str(Unknown)
    /\ \E s \in Callers :
          /\ ShortName(widgets[s])
          /\ Success \in msgs[s]
          /\ Field(store.sheets[sheet_name[s]], RowCount(store, sheet_name[s]),
                   "Patient ID") = Str(Unknown)

\* ------------------------------------------------------------------ C10
PermissionDenied == <<"error", "permission denied", "none">>

Errors(s) == {m \in msgs[s] : IsError(m)}

\* C10: a write that raises reports one error and no success:
\* PermissionError is reported by the permission-denied message and leaves
\* the workbook as it was, any other exception is reported by a different
\* message that quotes the exception; after a failed write the session still
\* holds the result of the run and shows the submit button with the same
\* widget values, so the operator can submit again.  Success is reported
\* exactly when nothing was raised.
C10_WriteFailure ==
    [][ \A s \in Callers :
          (pc[s] = "write" /\ pc'[s] = "idle") =>
              LET errors == {m \in msgs'[s] : IsError(m)}
              IN /\ (raised'[s] = "none") <=> (Success \in msgs'[s])
                 /\ (raised'[s] = "none") <=> (errors = {})
                 /\ raised'[s] = "PermissionError" =>
                       /\ errors = {PermissionDenied}
                       /\ store' = store
                 /\ raised'[s] \notin {"none", "PermissionError"} =>
                       /\ Cardinality(errors) = 1
                       /\ \A m \in errors : m[2] # PermissionDenied[2] /\ m[3] = raised'[s]
                 /\ raised'[s] # "none" =>
                       /\ all_gamma[s] # None
                       /\ all_gamma'[s] = all_gamma[s]
                       /\ patient_id'[s] = patient_id[s]
                       /\ widgets'[s] = widgets[s]
                       /\ button_shown'[s]
      ]_vars

\* The write of a workbook that holds records was denied: the workbook is as
\* it was and the submit button is on the page.
C10_Witness ==
    \E s \in Callers :
        /\ pc[s] = "idle"
        /\ raised[s] = "PermissionError"
        /\ Errors(s) = {PermissionDenied}
        /\ button_shown[s]
        /\ all_gamma[s] # None
        /\ store0.state = "ok"
        /\ store = store0

\* ------------------------------------------------------------------ C11
RECURSIVE SumSeq(_)
SumSeq(files) ==
    IF files = <<>> THEN 0 ELSE Head(files).pass_prcnt + SumSeq(Tail(files))

\* C11: the session percentage of a run is the arithmetic mean of the pass
\* percentages of all the beams submitted, each counted once: the sum the
\* run averaged, over its count, equals the sum over the uploaded files, over
\* their number.
C11_UnweightedMean ==
    \A s \in Callers :
        all_gamma[s] # None =>
            LET files == widgets[s].uploaded_files
            IN /\ all_gamma[s][3] = Len(files)
               /\ all_gamma[s][2] * Len(files) = SumSeq(files) * all_gamma[s][3]

\* ------------------------------------------------------------------ C12
UploadError == <<"error", "error saving uploaded file", "Exception">>

\* C12: a run without beams, because no file was uploaded or because a file
\* could not be stored, computes nothing: it has no session percentage and
\* no patient identifier, starts no gamma computation, does not show the save
\* section and does not call append_to_excel.
C12_EmptySession ==
    \A s \in Callers :
        (widgets[s].uploaded_files = <<>> \/ UploadError \in msgs[s]) =>
            /\ all_gamma[s] = None
            /\ patient_id[s] = None
            /\ gamma_calls[s] = <<>>
            /\ ~button_shown[s]
            /\ pc[s] = "idle"
            /\ calls_in_run[s] = 0

\* Files were uploaded, storing one failed, and the run stopped without a
\* result.
C12_Witness ==
    \E s \in Callers :
        /\ widgets[s].uploaded_files # <<>>
        /\ UploadError \in msgs[s]
        /\ all_gamma[s] = None
        /\ ~button_shown[s]

\* ------------------------------------------------------------------ C16
\* C16: while a record is in the hands of append_to_excel, the run that
\* built it has made its two gamma computations (the selected beam, then
\* every beam) with one and the same set of arguments; the record's
\* Threshold (%) is 100 times the threshold fraction passed, its
\* Normalization is "Global" exactly when normalize=True was passed and
\* "Local" otherwise, its Gamma (%) is the rounded result of that run; the
\* criteria passed are the preset of the selected technique, and the target
\* sheet is VMAT for VMAT and SBRT-SRS for SBRT and for SRS.
C16_RecordMatchesRun ==
    \A s \in Callers :
        pc[s] \in {"read", "write"} =>
            LET w == widgets[s]
                g == gamma_calls[s]
                label == DictGet(data_dict[s], "Normalization")
            IN /\ Len(g) = 2
               /\ g[1].fn = "calc_map" /\ g[2].fn = "avg_gamma_pct"
               /\ g[1].args = g[2].args
               /\ DictGet(data_dict[s], "Threshold (%)")[1] = "n"
               /\ DictGet(data_dict[s], "Threshold (%)")[2] * 100 = g[2].args.threshold
               /\ g[2].args.threshold = w.thd_percent * 100
               /\ label \in {Str(<<"Local">>), Str(<<"Global">>)}
               /\ (label = Str(<<"Global">>)) <=> g[2].args.normalize
               /\ label = Str(<<w.norm_option>>)
               /\ DictGet(data_dict[s], "Gamma (%)") = Num(Round2(all_gamma[s]))
               /\ g[2].args.doseTA = (IF w.option = "VMAT" THEN 44 ELSE 69)
               /\ g[2].args.distTA = 0 /\ g[2].args.resolution = 1
               /\ \/ w.option = "VMAT" /\ sheet_name[s] = "VMAT"
                  \/ w.option \in {"SBRT", "SRS"} /\ sheet_name[s] = "SBRT-SRS"

\* A record with the Global label and a threshold other than the default is
\* being written to the stereotactic sheet by a session on SRS.
C16_Witness ==
    \E s \in Callers :
        /\ pc[s] = "write"
        /\ widgets[s].option = "SRS"
        /\ widgets[s].norm_option = "Global"
        /\ widgets[s].thd_percent # DefaultWidgets.thd_percent
        /\ sheet_name[s] = "SBRT-SRS"
        /\ gamma_calls[s][2].args.normalize

\* ------------------------------------------------------------------ C15
\* C15: with one caller, an append that reports success on a workbook that
\* exists and can be read changes the total number of rows by exactly one,
\* adds that row to its category, leaves every other category with the same
\* records in the same order, creates no category but its own and removes
\* none.
C15_AppendFrame ==
    [][ \A s \in Callers :
          (pc[s] = "write" /\ store.state = "ok" /\ Success \in msgs'[s]) =>
              /\ TotalRows(store') = TotalRows(store) + 1
              /\ RowCount(store', sheet_name[s]) = RowCount(store, sheet_name[s]) + 1
              /\ DOMAIN store'.sheets = DOMAIN store.sheets \cup {sheet_name[s]}
              /\ \A c \in DOMAIN store.sheets \ {sheet_name[s]} :
                    Records(store'.sheets[c]) = Records(store.sheets[c])
      ]_vars

\* An append created its category in a workbook that held another one, and
\* an append to an existing category left the other category's row in place.
C15_Witness ==
    /\ store0 = PreparedStore
    /\ Len(calls) = 2
    /\ calls[1].sheet = "SBRT-SRS"
    /\ calls[2].sheet = "VMAT"
    /\ DOMAIN store.sheets = SheetNames
    /\ Records(store.sheets["SBRT-SRS"]) = <<RecordOf(calls[1].dict)>>
    /\ TotalRows(store) = 2

\* ------------------------------------------------------------------ C17
\* The rows of a frame under the standard columns.
FrameRecords(df) == reindex(df, standard_columns).rows

Final(m) == m[1] \in {"success", "error"}

\* C17: every call of append_to_excel returns to its caller, never by an
\* exception, having shown exactly one final message, success or error, with
\* or without the read warning; it shows success only when the workbook was
\* rewritten with every category the call holds: the ones it read and its
\* target, each with all its rows.
C17_OneOutcome ==
    [][ \A s \in Callers :
          /\ pc[s] = "read" => pc'[s] \in {"read", "write"}
          /\ pc[s] = "write" =>
                \/ pc'[s] = "write" /\ msgs'[s] = msgs[s]
                \/ /\ pc'[s] = "idle"
                   /\ ~propagated'[s]
                   /\ Cardinality({m \in msgs'[s] : Final(m)}) = 1
                   /\ \A m \in msgs[s] : ~Final(m)
                   /\ (Success \in msgs'[s]) <=> (raised'[s] = "none")
                   /\ Success \in msgs'[s] =>
                         /\ store'.state = "ok"
                         /\ DOMAIN store'.sheets = DOMAIN all_sheets[s] \cup {sheet_name[s]}
                         /\ Records(store'.sheets[sheet_name[s]]) = FrameRecords(updated_df[s])
                         /\ \A c \in DOMAIN all_sheets[s] \ {sheet_name[s]} :
                               Records(store'.sheets[c]) = FrameRecords(all_sheets[s][c])
      ]_vars

\* One call returned with the read warning and success, another with an
\* error and no success.
C17_Witness ==
    /\ store0.state = "unreadable"
    /\ Len(calls) = 1
    /\ calls[1].warned
    /\ \E s \in Callers :
          /\ pc[s] = "idle"
          /\ raised[s] = "Exception"
          /\ {m \in msgs[s] : Final(m)} = {Handler("Exception")}
          /\ ~propagated[s]

\* ------------------------------------------------------------------ C18
\* The string lengths of the values a persisted column holds.
ValueLens(sheet, j) ==
    {StrLen(sheet.cells[i][j]) : i \in {k \in 1..Len(sheet.cells) : sheet.cells[k][j] # Blank}}

\* C18: after a successful append every category of the workbook has, when
\* the call was given a width per column, exactly the given width on each
\* standard column that has one, and when it was given none, on each column
\* the width max(header length, longest string of a value of the column) + 1,
\* the categories without rows included (there the header length + 1).
C18_ColumnWidths ==
    Len(calls) > 0 =>
        LET given == calls[Len(calls)].widths
        IN \A n \in DOMAIN store.sheets :
              LET sheet == store.sheets[n]
              IN \A j \in 1..Len(sheet.header) :
                    IF given # None
                    THEN sheet.header[j] \in DOMAIN given =>
                            sheet.widths[j] = Num(given[sheet.header[j]])
                    ELSE sheet.widths[j] =
                            Num(Max({Len(sheet.header[j])} \cup ValueLens(sheet, j)) + 1)

====
